---- MODULE Spec2Model ----
(***************************************************************************)
(* Verification model of the Snake AI decision core (class SnakeAI) and    *)
(* of the host step that applies its decisions.                            *)
(*                                                                         *)
(* A Position {x, y} is the tuple <<x, y>>.  A SnakeState is the record    *)
(* [head, body, direction, length] with body a head-first sequence of      *)
(* positions.  A GameState is [food, gridWidth, gridHeight, obstacles,     *)
(* snakes]; snakes is indexed by player id (0-based in the source, so      *)
(* snakes[playerId] of the source is snakes[playerId + 1] here).           *)
(***************************************************************************)
EXTENDS Integers, Sequences, FiniteSets, TLC

VARIABLES
    gridWidth, gridHeight, playerId,      \* SnakeAI constructor arguments
    difficulty, strategy, useHamiltonian, \* configuration
    survivalMode,                         \* transient flag
    pathCache, lastCacheTime,             \* A* path cache
    cachedAt,                             \* history: when each path was stored
                                          \* since the last reset
    hamiltonianCycle, cycleIndex,         \* precomputed tour
    now,                                  \* wall clock read by Date.now()
    gameState,                            \* snapshot handed to getNextMove
    ret,                                  \* outcome of the last call
    probe, out,                           \* argument / result of a direct call
    players, playerHeap,                  \* TournamentManager: the id -> Player
                                          \* map and the Player objects made
    matches, currentMatch,                \* match list, match being played
    gameMode, roundRobin, maxPlayers,     \* mode settings
    currentRound, maxRounds, eliminated,  \* tournament progression
    stats                                 \* statistics

vars == <<gridWidth, gridHeight, playerId, difficulty, strategy,
          useHamiltonian, survivalMode, pathCache, lastCacheTime, cachedAt,
          hamiltonianCycle, cycleIndex, now, gameState, ret, probe, out,
          players, playerHeap, matches, currentMatch, gameMode, roundRobin,
          maxPlayers, currentRound, maxRounds, eliminated, stats>>

tournamentVars == <<players, playerHeap, matches, currentMatch, gameMode,
                    roundRobin, maxPlayers, currentRound, maxRounds,
                    eliminated, stats>>

agentVars == <<gridWidth, gridHeight, playerId, difficulty, strategy,
               useHamiltonian, survivalMode, pathCache, lastCacheTime,
               cachedAt, hamiltonianCycle, cycleIndex>>

\* The field initialisers of TournamentManager: no player, no match, mode
\* classic, round 1 of 1.  avgMatchDuration is kept as the fraction
\* sum / of that updateLeaderboard computes.
TournamentConstructed ==
    /\ players = <<>>
    /\ playerHeap = <<>>
    /\ matches = <<>>
    /\ currentMatch = 0
    /\ gameMode = "classic"
    /\ roundRobin = FALSE
    /\ maxPlayers = 4
    /\ currentRound = 1
    /\ maxRounds = 1
    /\ eliminated = {}
    /\ stats = [totalMatches |-> 0, completedMatches |-> 0,
                avgMatchDuration |-> [sum |-> 0, of |-> 1],
                leaderboard |-> <<>>]

----------------------------------------------------------------------------
(* Program constants *)

FloodCap == 100
CacheValidTime == 500
CycleMaxDim == 20
Infinity == 1000000

----------------------------------------------------------------------------
(* Arithmetic helpers *)

Abs(n) == IF n < 0 THEN -n ELSE n

Sign(n) == IF n > 0 THEN 1 ELSE IF n < 0 THEN -1 ELSE 0

Add(p, d) == <<p[1] + d[1], p[2] + d[2]>>

Sub(p, q) == <<p[1] - q[1], p[2] - q[2]>>

Heuristic(a, b) == Abs(a[1] - b[1]) + Abs(a[2] - b[2])

\* The fixed enumeration order right, left, down, up.
Directions == << <<1, 0>>, <<-1, 0>>, <<0, 1>>, <<0, -1>> >>

Neighbors(pos) ==
    << <<pos[1] + 1, pos[2]>>, <<pos[1] - 1, pos[2]>>,
       <<pos[1], pos[2] + 1>>, <<pos[1], pos[2] - 1>> >>

InBounds(pos, gs) ==
    /\ pos[1] >= 0 /\ pos[1] < gs.gridWidth
    /\ pos[2] >= 0 /\ pos[2] < gs.gridHeight

\* Map.set on a map represented as a function over its key set.
Put(f, k, v) == [x \in (DOMAIN f) \cup {k} |-> IF x = k THEN v ELSE f[x]]

\* (map.get(k) || Infinity): an absent key and a stored 0 both give Infinity.
OrInfinity(f, k) == IF k \in DOMAIN f /\ f[k] # 0 THEN f[k] ELSE Infinity

\* (map.get(k) || 0)
OrZero(f, k) == IF k \in DOMAIN f THEN f[k] ELSE 0

EmptyMap == [x \in {} |-> 0]

----------------------------------------------------------------------------
(* Occupancy oracle *)

isPositionOccupied_TailCounted(pos, me, gs) ==
    LET currentSnake == gs.snakes[me] IN
    \/ \E i \in 1..Len(currentSnake.body) : currentSnake.body[i] = pos
    \/ \E s \in DOMAIN gs.snakes :
          /\ s # me
          /\ \E i \in 1..Len(gs.snakes[s].body) : gs.snakes[s].body[i] = pos
    \/ pos \in gs.obstacles

\* me is the index of currentSnake in gs.snakes (the source compares object
\* identity, snake === currentSnake).
isPositionOccupied(pos, me, gs) ==
    LET currentSnake == gs.snakes[me] IN
    \/ \E i \in 1..(Len(currentSnake.body) - 1) : currentSnake.body[i] = pos
    \/ \E s \in DOMAIN gs.snakes :
          /\ s # me
          /\ \E i \in 1..Len(gs.snakes[s].body) : gs.snakes[s].body[i] = pos
    \/ pos \in gs.obstacles

isSafeMove(me, direction, gs) ==
    LET newHead == Add(gs.snakes[me].head, direction) IN
    IF ~InBounds(newHead, gs) THEN FALSE
    ELSE ~isPositionOccupied(newHead, me, gs)

----------------------------------------------------------------------------
(* Reachability analyser: bounded breadth-first flood fill *)

\* The loops of the source are run one iteration per Step; Run applies
\* Step until the loop has exited (done), splitting the iteration budget in
\* halves.  The budget passed by the callers exceeds the number of
\* iterations the loop can make.

\* One iteration of the while loop of countAvailableSpace on the loop state
\* [queue, visited, count, done]: exit when the queue is empty or the cap is
\* reached; otherwise shift the queue, skip a visited position (continue),
\* or mark and count it and push its admissible neighbours.
FloodStep(st, me, gs) ==
    IF Len(st.queue) = 0 \/ ~(st.count < FloodCap)
    THEN [st EXCEPT !.done = TRUE]
    ELSE LET pos == Head(st.queue) IN
         IF pos \in st.visited
         THEN [st EXCEPT !.queue = Tail(st.queue)]
         ELSE LET seen == st.visited \cup {pos}
                  neighbors ==
                     SelectSeq(Neighbors(pos),
                               LAMBDA neighbor :
                                  /\ InBounds(neighbor, gs)
                                  /\ ~isPositionOccupied(neighbor, me, gs)
                                  /\ neighbor \notin seen)
              IN [queue |-> Tail(st.queue) \o neighbors, visited |-> seen,
                  count |-> st.count + 1, done |-> FALSE]

RECURSIVE RunFlood(_, _, _, _)
RunFlood(st, n, me, gs) ==
    IF st.done \/ n = 0 THEN st
    ELSE IF n = 1 THEN FloodStep(st, me, gs)
    ELSE LET half == RunFlood(st, n \div 2, me, gs) IN
         IF half.done THEN half ELSE RunFlood(half, n - (n \div 2), me, gs)

\* Every counted position pushes at most four neighbours, so the loop makes
\* at most 4 * FloodCap + 1 iterations before its exit test.
FloodLoop(queue, visited, count, me, gs) ==
    RunFlood([queue |-> queue, visited |-> visited, count |-> count,
              done |-> FALSE], 4 * FloodCap + 4, me, gs).count

countAvailableSpace_CountFromOne(start, me, gs) ==
    FloodLoop(<<start>>, {}, 1, me, gs)

countAvailableSpace(start, me, gs) ==
    FloodLoop(<<start>>, {}, 0, me, gs)

----------------------------------------------------------------------------
(* Path planner: A* over the 4-connected grid *)

LowestF_Highest(openSet, fScore) ==
    LET first == CHOOSE i \in 1..Len(openSet) :
                    /\ \A j \in 1..Len(openSet) :
                          OrInfinity(fScore, openSet[i])
                             >= OrInfinity(fScore, openSet[j])
                    /\ \A j \in 1..(i - 1) :
                          OrInfinity(fScore, openSet[j])
                             < OrInfinity(fScore, openSet[i])
    IN openSet[first]

\* openSet.reduce(...): the first position of openSet with the least
\* (fScore || Infinity).
LowestF(openSet, fScore) ==
    LET first == CHOOSE i \in 1..Len(openSet) :
                    /\ \A j \in 1..Len(openSet) :
                          OrInfinity(fScore, openSet[i])
                             <= OrInfinity(fScore, openSet[j])
                    /\ \A j \in 1..(i - 1) :
                          OrInfinity(fScore, openSet[j])
                             > OrInfinity(fScore, openSet[i])
    IN openSet[first]

\* openSet.splice(openSet.indexOf(current), 1)
RemoveFirst(seq, x) ==
    LET at == CHOOSE i \in 1..Len(seq) :
                 seq[i] = x /\ \A j \in 1..(i - 1) : seq[j] # x
    IN SubSeq(seq, 1, at - 1) \o SubSeq(seq, at + 1, Len(seq))

\* The for-loop over the neighbours of current; st is the search state
\* [openSet, cameFrom, gScore, fScore, done, found].
RECURSIVE Relax(_, _, _, _)
Relax(neighbors, current, goal, st) ==
    IF Len(neighbors) = 0 THEN st
    ELSE LET neighbor == Head(neighbors)
             tentativeGScore == OrZero(st.gScore, current) + 1
             st2 ==
                IF tentativeGScore < OrInfinity(st.gScore, neighbor)
                THEN [st EXCEPT
                        !.cameFrom = Put(st.cameFrom, neighbor, current),
                        !.gScore = Put(st.gScore, neighbor, tentativeGScore),
                        !.fScore = Put(st.fScore, neighbor,
                                       tentativeGScore + Heuristic(neighbor, goal)),
                        !.openSet = IF \E i \in 1..Len(st.openSet) :
                                          st.openSet[i] = neighbor
                                    THEN st.openSet
                                    ELSE Append(st.openSet, neighbor)]
                ELSE st
         IN Relax(Tail(neighbors), current, goal, st2)

\* One iteration of the backward walk over the predecessor map, on the
\* state [current, path, done, diverges].  The source loops while cameFrom
\* has the current key; the map does not change during the walk, so the
\* loop exits iff the walk never comes back to a position it has already
\* put on the path.  A revisit is reported as diverges.
ReconstructStep(cameFrom, st) ==
    IF st.current \notin DOMAIN cameFrom THEN [st EXCEPT !.done = TRUE]
    ELSE LET prev == cameFrom[st.current] IN
         IF \E i \in 1..Len(st.path) : st.path[i] = prev
         THEN [st EXCEPT !.done = TRUE, !.diverges = TRUE]
         ELSE [st EXCEPT !.current = prev, !.path = <<prev>> \o st.path]

RECURSIVE RunReconstruct(_, _, _)
RunReconstruct(cameFrom, st, n) ==
    IF st.done \/ n = 0 THEN st
    ELSE IF n = 1 THEN ReconstructStep(cameFrom, st)
    ELSE LET half == RunReconstruct(cameFrom, st, n \div 2) IN
         IF half.done THEN half
         ELSE RunReconstruct(cameFrom, half, n - (n \div 2))

\* A walk without a revisit has at most one position per key of cameFrom.
Reconstruct(cameFrom, current) ==
    LET st == RunReconstruct(cameFrom,
                             [current |-> current, path |-> <<current>>,
                              done |-> FALSE, diverges |-> FALSE],
                             Cardinality(DOMAIN cameFrom) + 2)
    IN [diverges |-> st.diverges,
        path |-> IF st.diverges THEN <<>> ELSE st.path]

\* One iteration of the while loop of findPathAStar.
AStarStep(st, goal, me, gs) ==
    IF Len(st.openSet) = 0 THEN [st EXCEPT !.done = TRUE]
    ELSE LET current == LowestF(st.openSet, st.fScore) IN
         IF current = goal
         THEN [st EXCEPT !.done = TRUE, !.found = <<current>>]
         ELSE LET neighbors ==
                    SelectSeq(Neighbors(current),
                              LAMBDA pos : /\ InBounds(pos, gs)
                                           /\ ~isPositionOccupied(pos, me, gs))
                  st1 == [st EXCEPT !.openSet = RemoveFirst(st.openSet, current)]
              IN Relax(neighbors, current, goal, st1)

RECURSIVE RunAStar(_, _, _, _, _)
RunAStar(st, n, goal, me, gs) ==
    IF st.done \/ n = 0 THEN st
    ELSE IF n = 1 THEN AStarStep(st, goal, me, gs)
    ELSE LET half == RunAStar(st, n \div 2, goal, me, gs) IN
         IF half.done THEN half
         ELSE RunAStar(half, n - (n \div 2), goal, me, gs)

\* A position enters openSet only when its gScore is set for the first time
\* or lowered, and a gScore is at least 1 and at most the number of cells,
\* so the loop makes fewer than (cells + 1)^2 iterations.
AStarLoop(st, goal, me, gs) ==
    LET cells == gs.gridWidth * gs.gridHeight
        end == RunAStar(st, (cells + 1) * (cells + 1), goal, me, gs)
    IN IF end.found = <<>> THEN [diverges |-> FALSE, path |-> <<>>]
       ELSE Reconstruct(end.cameFrom, end.found[1])

\* Result: [diverges, path]; path is <<>> when no path is found.
findPathAStar(start, goal, me, gs) ==
    AStarLoop([openSet  |-> <<start>>,
               cameFrom |-> EmptyMap,
               gScore   |-> Put(EmptyMap, start, 0),
               fScore   |-> Put(EmptyMap, start, Heuristic(start, goal)),
               done     |-> FALSE,
               found    |-> <<>>],
              goal, me, gs)

----------------------------------------------------------------------------
(* Hamiltonian cycle generator *)

RowCells_SkipColumnZero(w, y) ==
    IF y % 2 = 0 THEN [k \in 1..w |-> <<k - 1, y>>]
    ELSE [k \in 1..(w - 1) |-> <<w - k, y>>]

\* One row of the zigzag: left to right on even rows, right to left on odd.
RowCells(w, y) ==
    [k \in 1..w |-> IF y % 2 = 0 THEN <<k - 1, y>> ELSE <<w - k, y>>]

RECURSIVE ZigZagRows(_, _, _)
ZigZagRows(w, h, y) ==
    IF ~(y < h) THEN <<>> ELSE RowCells(w, y) \o ZigZagRows(w, h, y + 1)

generateHamiltonianCycle_NoSizeLimit(w, h) == ZigZagRows(w, h, 0)

\* The cycle left in this.hamiltonianCycle by the constructor.
generateHamiltonianCycle(w, h) ==
    IF w > CycleMaxDim \/ h > CycleMaxDim THEN <<>>
    ELSE ZigZagRows(w, h, 0)

\* Array.findIndex: 0-based index of the first match, -1 when there is none.
FindIndex(cycle, pos) ==
    IF \E i \in 1..Len(cycle) : cycle[i] = pos
    THEN (CHOOSE i \in 1..Len(cycle) :
              /\ cycle[i] = pos
              /\ \A j \in 1..(i - 1) : cycle[j] # pos) - 1
    ELSE -1

----------------------------------------------------------------------------
(* Strategies.  Each returns the outcome of the call:                      *)
(*   [hang, dir, via, pathCache, lastCacheTime]                            *)
(* hang is TRUE when the call never returns; via names the return          *)
(* statement that produced dir; the last two fields are the values the     *)
(* call leaves in the agent.                                               *)

Returns(d, via) ==
    [hang |-> FALSE, dir |-> d, via |-> via, pathCache |-> pathCache,
     lastCacheTime |-> lastCacheTime]

NeverReturns ==
    [hang |-> TRUE, dir |-> <<0, 0>>, via |-> "none", pathCache |-> pathCache,
     lastCacheTime |-> lastCacheTime]

\* The occupancy-safe directions in the order right, left, down, up.
SafeDirections(me, gs) ==
    SelectSeq(Directions, LAMBDA dir : isSafeMove(me, dir, gs))

getSafeMove_LastSafe(me, gs) ==
    LET directions == SafeDirections(me, gs) IN
    IF Len(directions) > 0 THEN directions[Len(directions)] ELSE <<1, 0>>

getSafeMove(me, gs) ==
    LET directions == SafeDirections(me, gs) IN
    IF Len(directions) > 0 THEN directions[1] ELSE <<1, 0>>

getSimpleMove_HorizontalOnTie(me, gs) ==
    LET head == gs.snakes[me].head
        dx == gs.food[1] - head[1]
        dy == gs.food[2] - head[2]
        direction == IF Abs(dx) >= Abs(dy) THEN <<Sign(dx), 0>>
                     ELSE <<0, Sign(dy)>>
        alternatives == SafeDirections(me, gs)
    IN IF isSafeMove(me, direction, gs) THEN direction
       ELSE IF Len(alternatives) > 0 THEN alternatives[1] ELSE <<1, 0>>

getSimpleMove(me, gs) ==
    LET head == gs.snakes[me].head
        dx == gs.food[1] - head[1]
        dy == gs.food[2] - head[2]
        direction == IF Abs(dx) > Abs(dy) THEN <<Sign(dx), 0>>
                     ELSE <<0, Sign(dy)>>
        alternatives == SafeDirections(me, gs)
    IN IF isSafeMove(me, direction, gs) THEN direction
       ELSE IF Len(alternatives) > 0 THEN alternatives[1] ELSE <<1, 0>>

\* The cache key `${head.x},${head.y}-${food.x},${food.y}` is kept as the
\* pair of positions; the text is distinct for distinct pairs.
CacheKey(head, food) == <<head, food>>

getAStarMove_EvictsOnRefresh(me, gs) ==
    LET head == gs.snakes[me].head
        cacheKey == CacheKey(head, gs.food)
    IN IF /\ cacheKey \in DOMAIN pathCache
          /\ (now - lastCacheTime) < CacheValidTime
          /\ Len(pathCache[cacheKey]) > 1
       THEN Returns(Sub(pathCache[cacheKey][2], head), "cache")
       ELSE LET found == findPathAStar(head, gs.food, me, gs) IN
            IF found.diverges THEN NeverReturns
            ELSE IF Len(found.path) > 1
            THEN [hang |-> FALSE,
                  dir |-> Sub(found.path[2], head),
                  via |-> "astar",
                  pathCache |-> Put(IF (now - lastCacheTime) < CacheValidTime
                                    THEN pathCache ELSE EmptyMap,
                                    cacheKey, found.path),
                  lastCacheTime |-> now]
            ELSE Returns(getSafeMove(me, gs), "safe")

getAStarMove_ChecksCachedStep(me, gs) ==
    LET head == gs.snakes[me].head
        cacheKey == CacheKey(head, gs.food)
    IN IF /\ cacheKey \in DOMAIN pathCache
          /\ (now - lastCacheTime) < CacheValidTime
          /\ Len(pathCache[cacheKey]) > 1
          /\ isSafeMove(me, Sub(pathCache[cacheKey][2], head), gs)
       THEN Returns(Sub(pathCache[cacheKey][2], head), "cache")
       ELSE LET found == findPathAStar(head, gs.food, me, gs) IN
            IF found.diverges THEN NeverReturns
            ELSE IF Len(found.path) > 1
            THEN [hang |-> FALSE,
                  dir |-> Sub(found.path[2], head),
                  via |-> "astar",
                  pathCache |-> Put(pathCache, cacheKey, found.path),
                  lastCacheTime |-> now]
            ELSE Returns(getSafeMove(me, gs), "safe")

getAStarMove(me, gs) ==
    LET head == gs.snakes[me].head
        cacheKey == CacheKey(head, gs.food)
    IN IF /\ cacheKey \in DOMAIN pathCache
          /\ (now - lastCacheTime) < CacheValidTime
          /\ Len(pathCache[cacheKey]) > 1
       THEN Returns(Sub(pathCache[cacheKey][2], head), "cache")
       ELSE LET found == findPathAStar(head, gs.food, me, gs) IN
            IF found.diverges THEN NeverReturns
            ELSE IF Len(found.path) > 1
            THEN [hang |-> FALSE,
                  dir |-> Sub(found.path[2], head),
                  via |-> "astar",
                  pathCache |-> Put(pathCache, cacheKey, found.path),
                  lastCacheTime |-> now]
            ELSE Returns(getSafeMove(me, gs), "safe")

RECURSIVE SurvivalLoop_LastOfTies(_, _, _, _)
SurvivalLoop_LastOfTies(directions, best, me, gs) ==
    IF Len(directions) = 0 THEN best.bestMove
    ELSE LET direction == Head(directions)
             newHead == Add(gs.snakes[me].head, direction)
             spaceCount == countAvailableSpace(newHead, me, gs)
             best2 == IF isSafeMove(me, direction, gs) /\ spaceCount >= best.maxSpace
                      THEN [bestMove |-> direction, maxSpace |-> spaceCount]
                      ELSE best
         IN SurvivalLoop_LastOfTies(Tail(directions), best2, me, gs)

\* The for-loop of getSurvivalMove; best is [bestMove, maxSpace].
RECURSIVE SurvivalLoop(_, _, _, _)
SurvivalLoop(directions, best, me, gs) ==
    IF Len(directions) = 0 THEN best.bestMove
    ELSE LET direction == Head(directions)
             newHead == Add(gs.snakes[me].head, direction)
             spaceCount == countAvailableSpace(newHead, me, gs)
             best2 == IF isSafeMove(me, direction, gs) /\ spaceCount > best.maxSpace
                      THEN [bestMove |-> direction, maxSpace |-> spaceCount]
                      ELSE best
         IN SurvivalLoop(Tail(directions), best2, me, gs)

getSurvivalMove(me, gs) ==
    SurvivalLoop(Directions, [bestMove |-> Directions[1], maxSpace |-> -1], me, gs)

getHamiltonianMove(me, gs) ==
    LET head == gs.snakes[me].head
        currentIndex == FindIndex(hamiltonianCycle, head)
        nextIndex == (currentIndex + 1) % Len(hamiltonianCycle)
    IN IF Len(hamiltonianCycle) = 0
       THEN Returns(getSurvivalMove(me, gs), "survival")
       ELSE IF currentIndex = -1 THEN getAStarMove(me, gs)
       ELSE Returns(Sub(hamiltonianCycle[nextIndex + 1], head), "cycle")

shouldEnterSurvivalMode_QuarterThreshold(me, gs) ==
    LET cells == gs.gridWidth * gs.gridHeight IN
    \/ 4 * countAvailableSpace(gs.snakes[me].head, me, gs) < cells
    \/ 2 * gs.snakes[me].length > cells

shouldEnterSurvivalMode_RatioOnly(me, gs) ==
    LET cells == gs.gridWidth * gs.gridHeight IN
    10 * countAvailableSpace(gs.snakes[me].head, me, gs) < 3 * cells

\* count / (w * h) < 0.3  and  length > (w * h) * 0.5, in integers.
shouldEnterSurvivalMode(me, gs) ==
    LET cells == gs.gridWidth * gs.gridHeight IN
    \/ 10 * countAvailableSpace(gs.snakes[me].head, me, gs) < 3 * cells
    \/ 2 * gs.snakes[me].length > cells

\* The dispatch of getNextMove once survivalMode has been computed.
Dispatch(me, gs, survival) ==
    IF useHamiltonian /\ ~survival THEN getHamiltonianMove(me, gs)
    ELSE CASE strategy = "simple" -> Returns(getSimpleMove(me, gs), "simple")
           [] strategy = "astar" -> getAStarMove(me, gs)
           [] strategy = "survival" -> Returns(getSurvivalMove(me, gs), "survival")
           [] strategy = "hamiltonian" -> getHamiltonianMove(me, gs)
           [] OTHER -> Returns(getSimpleMove(me, gs), "simple")

----------------------------------------------------------------------------
(* Snapshots *)

MkSnake(body) ==
    [head |-> body[1], body |-> body,
     direction |-> IF Len(body) > 1 THEN Sub(body[1], body[2]) ELSE <<1, 0>>,
     length |-> Len(body)]

MkGameState(w, h, food, obstacles, snakes) ==
    [food |-> food, gridWidth |-> w, gridHeight |-> h,
     obstacles |-> obstacles, snakes |-> snakes]

Cells(w, h) == (0..(w - 1)) \X (0..(h - 1))

Adjacent(p, q) == Heuristic(p, q) = 1

\* Head-first bodies of n distinct cells, each next to the one before it,
\* with the head in heads.
RECURSIVE Bodies(_, _, _, _)
Bodies(n, heads, w, h) ==
    IF n = 1 THEN {<<c>> : c \in heads}
    ELSE UNION {{Append(b, c) :
                    c \in {d \in Cells(w, h) :
                              /\ Adjacent(d, b[Len(b)])
                              /\ \A i \in 1..Len(b) : b[i] # d}} :
                b \in Bodies(n - 1, heads, w, h)}

BodyCells(body) == {body[i] : i \in 1..Len(body)}

\* No two things of the snapshot share a cell.
WellFormed(gs) ==
    /\ \A s \in DOMAIN gs.snakes :
          /\ BodyCells(gs.snakes[s].body) \cap gs.obstacles = {}
          /\ \A t \in DOMAIN gs.snakes :
                s # t => BodyCells(gs.snakes[s].body)
                            \cap BodyCells(gs.snakes[t].body) = {}

----------------------------------------------------------------------------
(* The agent with its host: snapshots the host hands over                  *)

StartTime == 1000
TickMs == 250
MaxTicks == 2

Grids == {<<3, 4>>, <<3, 3>>}

LastCell(w, h) == IF h % 2 = 0 THEN <<0, h - 1>> ELSE <<w - 1, h - 1>>

\* The last body is longer than half of the nine-cell grid.
AgentBodies(w, h) ==
    {<<<<0, 0>>>>, <<<<0, 0>>, <<0, 1>>>>, <<<<0, 0>>, <<1, 0>>>>,
     <<LastCell(w, h)>>,
     <<<<0, 0>>, <<0, 1>>, <<0, 2>>, <<1, 2>>, <<2, 2>>>>}

AgentFoods(w, h) == {<<0, 0>>, <<0, 1>>, <<2, 0>>}

ObstacleLayouts(w, h) ==
    {{}, {<<1, 0>>}, {<<1, 0>>, <<0, 1>>}, {<<2, 0>>, <<1, 1>>, <<0, 2>>}}

OtherSnakes(w, h) == {<<>>, <<MkSnake(<<<<1, 1>>, <<1, 2>>>>)>>}

\* The snapshots the host may hand to the agent whose player id is 0: the
\* agent's snake first, other snakes after it; or no snake at all.
Snapshots(w, h) ==
    {gs \in {MkGameState(w, h, food, obstacles, <<MkSnake(body)>> \o others) :
                 food \in AgentFoods(w, h), obstacles \in ObstacleLayouts(w, h),
                 body \in AgentBodies(w, h), others \in OtherSnakes(w, h)} :
        WellFormed(gs)}
    \cup {MkGameState(w, h, <<0, 0>>, {}, <<>>)}

NoRet == [kind |-> "none", dir |-> <<0, 0>>, via |-> "none"]

NoProbe == [fn |-> "none", pos |-> <<0, 0>>]

Init ==
    /\ \E g \in Grids : gridWidth = g[1] /\ gridHeight = g[2]
    /\ playerId = 0
    /\ difficulty = "Medium"
    /\ strategy = "astar"
    /\ useHamiltonian = FALSE
    /\ survivalMode = FALSE
    /\ pathCache = EmptyMap
    /\ lastCacheTime = 0
    /\ cachedAt = EmptyMap
    /\ hamiltonianCycle = generateHamiltonianCycle(gridWidth, gridHeight)
    /\ cycleIndex = 0
    /\ now = StartTime
    /\ gameState \in Snapshots(gridWidth, gridHeight)
    /\ ret = NoRet
    /\ probe = NoProbe
    /\ out = <<>>
    /\ TournamentConstructed

Running == ret.kind # "hang"

Difficulties == {"Easy", "Medium", "Hard", "Expert", "Impossible"}

StrategyOf_HardSurvival(d) ==
    CASE d = "Easy" -> "simple"
      [] d = "Medium" -> "astar"
      [] d = "Hard" -> "survival"
      [] d = "Expert" -> "survival"
      [] d = "Impossible" -> "hamiltonian"

StrategyOf(d) ==
    CASE d = "Easy" -> "simple"
      [] d = "Medium" -> "astar"
      [] d = "Hard" -> "astar"
      [] d = "Expert" -> "survival"
      [] d = "Impossible" -> "hamiltonian"

\* Math.random() < p is either outcome for 0 < p < 1.
SetDifficulty(d) ==
    /\ Running
    /\ difficulty' = d
    /\ strategy' = StrategyOf(d)
    /\ CASE d \in {"Hard", "Expert"} -> useHamiltonian' \in BOOLEAN
         [] d = "Impossible" -> useHamiltonian' = TRUE
         [] OTHER -> useHamiltonian' = useHamiltonian
    /\ UNCHANGED <<gridWidth, gridHeight, playerId, survivalMode, pathCache,
                   lastCacheTime, cachedAt, hamiltonianCycle, cycleIndex,
                   now, gameState, ret, probe, out>>
    /\ UNCHANGED tournamentVars

Reset_ToDefaults ==
    /\ Running
    /\ pathCache' = EmptyMap
    /\ cachedAt' = EmptyMap
    /\ cycleIndex' = 0
    /\ survivalMode' = FALSE
    /\ difficulty' = "Medium"
    /\ strategy' = "astar"
    /\ useHamiltonian' = FALSE
    /\ UNCHANGED <<gridWidth, gridHeight, playerId, lastCacheTime,
                   hamiltonianCycle, now, gameState, ret, probe, out>>
    /\ UNCHANGED tournamentVars

Reset_CacheKept ==
    /\ Running
    /\ cachedAt' = EmptyMap
    /\ cycleIndex' = 0
    /\ survivalMode' = FALSE
    /\ UNCHANGED <<gridWidth, gridHeight, playerId, difficulty, strategy,
                   useHamiltonian, pathCache, lastCacheTime, hamiltonianCycle,
                   now, gameState, ret, probe, out>>
    /\ UNCHANGED tournamentVars

Reset ==
    /\ Running
    /\ pathCache' = EmptyMap
    /\ cachedAt' = EmptyMap
    /\ cycleIndex' = 0
    /\ survivalMode' = FALSE
    /\ UNCHANGED <<gridWidth, gridHeight, playerId, difficulty, strategy,
                   useHamiltonian, lastCacheTime, hamiltonianCycle,
                   now, gameState, ret, probe, out>>
    /\ UNCHANGED tournamentVars

\* The host publishes the snapshot of the next tick.
HostSnapshot(gs) ==
    /\ Running
    /\ gameState' = gs
    /\ ret' = NoRet
    /\ UNCHANGED <<agentVars, now, probe, out>>
    /\ UNCHANGED tournamentVars

Tick ==
    /\ Running
    /\ now < StartTime + MaxTicks * TickMs
    /\ now' = now + TickMs
    /\ UNCHANGED <<agentVars, gameState, ret, probe, out>>
    /\ UNCHANGED tournamentVars

GetNextMove_AbsentClearsFlag ==
    /\ Running
    /\ ret = NoRet
    /\ LET me == playerId + 1 IN
       IF me \notin DOMAIN gameState.snakes
       THEN /\ ret' = [kind |-> "move", dir |-> <<0, 1>>, via |-> "absent"]
            /\ survivalMode' = FALSE
            /\ UNCHANGED <<pathCache, lastCacheTime, cachedAt>>
       ELSE LET survival == shouldEnterSurvivalMode(me, gameState)
                result == Dispatch(me, gameState, survival)
                cacheKey == CacheKey(gameState.snakes[me].head, gameState.food)
            IN /\ survivalMode' = survival
               /\ pathCache' = result.pathCache
               /\ lastCacheTime' = result.lastCacheTime
               /\ cachedAt' = IF result.via = "astar"
                              THEN Put(cachedAt, cacheKey, now)
                              ELSE cachedAt
               /\ ret' = IF result.hang
                         THEN [kind |-> "hang", dir |-> <<0, 0>>, via |-> "none"]
                         ELSE [kind |-> "move", dir |-> result.dir,
                               via |-> result.via]
    /\ UNCHANGED <<gridWidth, gridHeight, playerId, difficulty, strategy,
                   useHamiltonian, hamiltonianCycle, cycleIndex, now,
                   gameState, probe, out>>
    /\ UNCHANGED tournamentVars

GetNextMove_DrainsObstacles ==
    /\ Running
    /\ ret = NoRet
    /\ LET me == playerId + 1 IN
       IF me \notin DOMAIN gameState.snakes
       THEN /\ ret' = [kind |-> "move", dir |-> <<0, 1>>, via |-> "absent"]
            /\ UNCHANGED <<survivalMode, pathCache, lastCacheTime, cachedAt>>
       ELSE LET survival == shouldEnterSurvivalMode(me, gameState)
                result == Dispatch(me, gameState, survival)
                cacheKey == CacheKey(gameState.snakes[me].head, gameState.food)
            IN /\ survivalMode' = survival
               /\ pathCache' = result.pathCache
               /\ lastCacheTime' = result.lastCacheTime
               /\ cachedAt' = IF result.via = "astar"
                              THEN Put(cachedAt, cacheKey, now)
                              ELSE cachedAt
               /\ ret' = IF result.hang
                         THEN [kind |-> "hang", dir |-> <<0, 0>>, via |-> "none"]
                         ELSE [kind |-> "move", dir |-> result.dir,
                               via |-> result.via]
    /\ UNCHANGED <<gridWidth, gridHeight, playerId, difficulty, strategy,
                   useHamiltonian, hamiltonianCycle, cycleIndex, now,
                   probe, out>>
    /\ gameState' = [gameState EXCEPT !.obstacles = {}]
    /\ UNCHANGED tournamentVars

GetNextMove_KeepsSurvivalStrategy ==
    /\ Running
    /\ ret = NoRet
    /\ LET me == playerId + 1 IN
       IF me \notin DOMAIN gameState.snakes
       THEN /\ ret' = [kind |-> "move", dir |-> <<0, 1>>, via |-> "absent"]
            /\ UNCHANGED <<survivalMode, pathCache, lastCacheTime, cachedAt>>
       ELSE LET survival == shouldEnterSurvivalMode(me, gameState)
                result == Dispatch(me, gameState, survival)
                cacheKey == CacheKey(gameState.snakes[me].head, gameState.food)
            IN /\ survivalMode' = survival
               /\ pathCache' = result.pathCache
               /\ lastCacheTime' = result.lastCacheTime
               /\ cachedAt' = IF result.via = "astar"
                              THEN Put(cachedAt, cacheKey, now)
                              ELSE cachedAt
               /\ ret' = IF result.hang
                         THEN [kind |-> "hang", dir |-> <<0, 0>>, via |-> "none"]
                         ELSE [kind |-> "move", dir |-> result.dir,
                               via |-> result.via]
    /\ UNCHANGED <<gridWidth, gridHeight, playerId, difficulty,
                   useHamiltonian, hamiltonianCycle, cycleIndex, now,
                   gameState, probe, out>>
    /\ strategy' = IF survivalMode' /\ ret'.via # "absent"
                   THEN "survival" ELSE strategy
    /\ UNCHANGED tournamentVars

\* One call of getNextMove on the current snapshot.
GetNextMove ==
    /\ Running
    /\ ret = NoRet
    /\ LET me == playerId + 1 IN
       IF me \notin DOMAIN gameState.snakes
       THEN /\ ret' = [kind |-> "move", dir |-> <<0, 1>>, via |-> "absent"]
            /\ UNCHANGED <<survivalMode, pathCache, lastCacheTime, cachedAt>>
       ELSE LET survival == shouldEnterSurvivalMode(me, gameState)
                result == Dispatch(me, gameState, survival)
                cacheKey == CacheKey(gameState.snakes[me].head, gameState.food)
            IN /\ survivalMode' = survival
               /\ pathCache' = result.pathCache
               /\ lastCacheTime' = result.lastCacheTime
               /\ cachedAt' = IF result.via = "astar"
                              THEN Put(cachedAt, cacheKey, now)
                              ELSE cachedAt
               /\ ret' = IF result.hang
                         THEN [kind |-> "hang", dir |-> <<0, 0>>, via |-> "none"]
                         ELSE [kind |-> "move", dir |-> result.dir,
                               via |-> result.via]
    /\ UNCHANGED <<gridWidth, gridHeight, playerId, difficulty, strategy,
                   useHamiltonian, hamiltonianCycle, cycleIndex, now,
                   gameState, probe, out>>
    /\ UNCHANGED tournamentVars

Next ==
    \/ \E d \in Difficulties : SetDifficulty(d)
    \/ Reset
    \/ \E gs \in Snapshots(gridWidth, gridHeight) : HostSnapshot(gs)
    \/ GetNextMove

Spec == Init /\ [][Next]_vars

\* The same machine with the clock running between the calls.
NextTimed == Next \/ Tick

SpecTimed == Init /\ [][NextTimed]_vars

----------------------------------------------------------------------------
(* Direct calls of the occupancy test, the flood fill and the path planner *)
(* on bounded snapshots: one call per snapshot                             *)

MaxBody == 3
MaxObstacles == 2

FnGrids == {<<3, 3>>, <<11, 10>>}

\* Grids with fewer cells than the flood-fill cap are enumerated in full;
\* larger ones get the agent in the corner and full-height walls.
SmallGrid(w, h) == w * h < FloodCap

FnBodies(w, h) ==
    UNION {Bodies(n, IF SmallGrid(w, h) THEN Cells(w, h) ELSE {<<0, 0>>}, w, h) :
           n \in 1..MaxBody}

Wall(c, h) == {<<c, y>> : y \in 0..(h - 1)}

FnObstacles(w, h) ==
    IF SmallGrid(w, h)
    THEN {o \in SUBSET Cells(w, h) : Cardinality(o) <= MaxObstacles}
    ELSE {{}} \cup {Wall(c, h) : c \in 1..(w - 1)}

FnOthers(w, h) ==
    IF SmallGrid(w, h)
    THEN {<<>>, <<MkSnake(<<<<w - 1, h - 1>>, <<w - 1, h - 2>>>>)>>}
    ELSE {<<>>}

FnSnapshots(w, h) ==
    {gs \in {MkGameState(w, h, <<0, 0>>, obstacles, <<MkSnake(body)>> \o others) :
                 obstacles \in FnObstacles(w, h), body \in FnBodies(w, h),
                 others \in FnOthers(w, h)} :
        WellFormed(gs)}

InitFn ==
    /\ \E g \in FnGrids : gridWidth = g[1] /\ gridHeight = g[2]
    /\ playerId = 0
    /\ difficulty = "Medium"
    /\ strategy = "astar"
    /\ useHamiltonian = FALSE
    /\ survivalMode = FALSE
    /\ pathCache = EmptyMap
    /\ lastCacheTime = 0
    /\ cachedAt = EmptyMap
    /\ hamiltonianCycle = generateHamiltonianCycle(gridWidth, gridHeight)
    /\ cycleIndex = 0
    /\ now = StartTime
    /\ gameState \in FnSnapshots(gridWidth, gridHeight)
    /\ ret = NoRet
    /\ probe = NoProbe
    /\ out = <<>>
    /\ TournamentConstructed

\* The cells the bounds check and the occupancy test are asked about: the
\* grid and the ring of cells just outside it.
ProbeCells(gs) == (-1..gs.gridWidth) \X (-1..gs.gridHeight)

\* The test the callers apply to a cell: out of bounds or occupied.
CallIsPositionOccupied(pos) ==
    /\ probe = NoProbe
    /\ probe' = [fn |-> "isPositionOccupied", pos |-> pos]
    /\ out' = (~InBounds(pos, gameState)
               \/ isPositionOccupied(pos, playerId + 1, gameState))
    /\ UNCHANGED <<agentVars, now, gameState, ret>>
    /\ UNCHANGED tournamentVars

\* The starts the agent passes: its head (shouldEnterSurvivalMode) and the
\* cell behind each safe direction (getSurvivalMove).
FloodStarts(me, gs) ==
    {gs.snakes[me].head}
    \cup {Add(gs.snakes[me].head, Directions[i]) :
             i \in {j \in 1..4 : isSafeMove(me, Directions[j], gs)}}

CallCountAvailableSpace(start) ==
    /\ probe = NoProbe
    /\ probe' = [fn |-> "countAvailableSpace", pos |-> start]
    /\ out' = countAvailableSpace(start, playerId + 1, gameState)
    /\ UNCHANGED <<agentVars, now, gameState, ret>>
    /\ UNCHANGED tournamentVars

\* getAStarMove searches from the head to the food.
CallFindPathAStar(goal) ==
    /\ probe = NoProbe
    /\ SmallGrid(gameState.gridWidth, gameState.gridHeight)
    /\ probe' = [fn |-> "findPathAStar", pos |-> goal]
    /\ out' = findPathAStar(gameState.snakes[playerId + 1].head, goal,
                            playerId + 1, gameState)
    /\ UNCHANGED <<agentVars, now, gameState, ret>>
    /\ UNCHANGED tournamentVars

NextFn ==
    \/ \E pos \in ProbeCells(gameState) : CallIsPositionOccupied(pos)
    \/ \E start \in FloodStarts(playerId + 1, gameState) :
          CallCountAvailableSpace(start)
    \/ \E goal \in Cells(gameState.gridWidth, gameState.gridHeight) :
          CallFindPathAStar(goal)

SpecFn == InitFn /\ [][NextFn]_vars

----------------------------------------------------------------------------
(* The host loop: an Impossible-tier agent decides, the host moves the     *)
(* snake by the returned direction, tick after tick                        *)

HostMaxBody == 3
HostMaxLen == 4

\* Grids of two rows, on which the zigzag tour closes into a loop.
HostGrids == {<<3, 2>>, <<4, 2>>}

HostSnapshots(w, h) ==
    {MkGameState(w, h, food, {}, <<MkSnake(body)>>) :
        food \in Cells(w, h),
        body \in UNION {Bodies(n, Cells(w, h), w, h) : n \in 1..HostMaxBody}}

\* new SnakeAI(id, w, h) followed by setDifficulty('Impossible'), as
\* TournamentManager.addPlayer does for an AI player.
InitHost ==
    /\ \E g \in HostGrids : gridWidth = g[1] /\ gridHeight = g[2]
    /\ playerId = 0
    /\ difficulty = "Impossible"
    /\ strategy = "hamiltonian"
    /\ useHamiltonian = TRUE
    /\ survivalMode = FALSE
    /\ pathCache = EmptyMap
    /\ lastCacheTime = 0
    /\ cachedAt = EmptyMap
    /\ hamiltonianCycle = generateHamiltonianCycle(gridWidth, gridHeight)
    /\ cycleIndex = 0
    /\ now = StartTime
    /\ gameState \in HostSnapshots(gridWidth, gridHeight)
    /\ ret = NoRet
    /\ probe = NoProbe
    /\ out = <<>>
    /\ TournamentConstructed

GameOver == [kind |-> "gameover", dir |-> <<0, 0>>, via |-> "none"]

\* moveSnake with the returned direction: a wall or any body segment under
\* the new head ends the game; otherwise the head is put in front and the
\* tail is dropped unless the food was eaten, in which case spawnFood draws
\* a new cell.
HostMove ==
    /\ ret.kind = "move"
    /\ LET snake == gameState.snakes[playerId + 1]
           head == Add(snake.body[1], ret.dir)
           grown == <<head>> \o snake.body
           moved == SubSeq(grown, 1, Len(snake.body))
       IN IF \/ ~InBounds(head, gameState)
             \/ \E i \in 1..Len(snake.body) : snake.body[i] = head
          THEN /\ ret' = GameOver
               /\ UNCHANGED gameState
          ELSE IF head = gameState.food
          THEN /\ Len(grown) <= HostMaxLen
               /\ \E food \in Cells(gridWidth, gridHeight) :
                     gameState' =
                        [gameState EXCEPT
                            !.food = food,
                            !.snakes[playerId + 1] =
                               [head |-> head, body |-> grown,
                                direction |-> ret.dir, length |-> Len(grown)]]
               /\ ret' = NoRet
          ELSE /\ gameState' =
                     [gameState EXCEPT
                         !.snakes[playerId + 1] =
                            [head |-> head, body |-> moved,
                             direction |-> ret.dir, length |-> Len(moved)]]
               /\ ret' = NoRet
    /\ UNCHANGED <<agentVars, now, probe, out>>
    /\ UNCHANGED tournamentVars

NextHost == GetNextMove \/ HostMove

SpecHost == InitHost /\ [][NextHost]_vars

----------------------------------------------------------------------------
(* The path cache over time: the clock advances between the calls, and the *)
(* host hands over snapshots that share (head, food) pairs                 *)

CacheGrids == {<<3, 3>>}

CacheBodies == {<<<<0, 0>>, <<0, 1>>>>, <<<<1, 1>>, <<0, 1>>>>}

CacheFoods == {<<2, 0>>, <<2, 2>>}

CacheObstacles == {{}, {<<1, 0>>}}

\* The tiers that leave useHamiltonian as constructed: one plans with A*,
\* the other never touches the cache.
CacheDifficulties == {"Easy", "Medium"}

CacheSnapshots(w, h) ==
    {gs \in {MkGameState(w, h, food, obstacles, <<MkSnake(body)>>) :
                 food \in CacheFoods, obstacles \in CacheObstacles,
                 body \in CacheBodies} :
        WellFormed(gs)}

InitCache ==
    /\ \E g \in CacheGrids : gridWidth = g[1] /\ gridHeight = g[2]
    /\ playerId = 0
    /\ difficulty = "Medium"
    /\ strategy = "astar"
    /\ useHamiltonian = FALSE
    /\ survivalMode = FALSE
    /\ pathCache = EmptyMap
    /\ lastCacheTime = 0
    /\ cachedAt = EmptyMap
    /\ hamiltonianCycle = generateHamiltonianCycle(gridWidth, gridHeight)
    /\ cycleIndex = 0
    /\ now = StartTime
    /\ gameState \in CacheSnapshots(gridWidth, gridHeight)
    /\ ret = NoRet
    /\ probe = NoProbe
    /\ out = <<>>
    /\ TournamentConstructed

NextCache ==
    \/ \E d \in CacheDifficulties : SetDifficulty(d)
    \/ Reset
    \/ \E gs \in CacheSnapshots(gridWidth, gridHeight) : HostSnapshot(gs)
    \/ GetNextMove
    \/ Tick

SpecCache == InitCache /\ [][NextCache]_vars

----------------------------------------------------------------------------
(* The cycle follower and its fallbacks: an agent built for a grid above   *)
(* the size threshold, and an agent whose host plays on a grid larger than *)
(* the one the agent was built for, so that a head can be off the cycle    *)

\* <<agent width, agent height, snapshot width, snapshot height>>
CycleSetups == {<<21, 1, 21, 1>>, <<3, 2, 3, 3>>}

CycleBodies(w, h) ==
    IF w > CycleMaxDim \/ h > CycleMaxDim
    THEN {<<<<0, 0>>>>, <<<<5, 0>>, <<4, 0>>>>, <<<<20, 0>>, <<19, 0>>>>}
    ELSE {<<<<0, 0>>, <<1, 0>>>>, <<<<0, 1>>>>, <<<<1, 1>>, <<1, 0>>>>,
          <<<<1, 2>>, <<0, 2>>>>, <<<<2, 2>>, <<2, 1>>>>}

CycleFoods(w, h) ==
    IF w > CycleMaxDim \/ h > CycleMaxDim THEN {<<10, 0>>, <<0, 0>>}
    ELSE {<<2, 0>>, <<0, 2>>}

CycleObstacles(w, h) ==
    IF w > CycleMaxDim \/ h > CycleMaxDim THEN {{}, {<<6, 0>>}}
    ELSE {{}, {<<1, 1>>}, {<<2, 2>>}}

CycleSnapshots(w, h) ==
    UNION {{gs \in {MkGameState(g[3], g[4], food, obstacles, <<MkSnake(body)>>) :
                       food \in CycleFoods(w, h),
                       obstacles \in CycleObstacles(w, h),
                       body \in CycleBodies(w, h)} :
               WellFormed(gs)} :
           g \in {c \in CycleSetups : c[1] = w /\ c[2] = h}}

\* new SnakeAI(id, w, h) followed by setDifficulty('Impossible').
InitCycle ==
    /\ \E g \in CycleSetups : gridWidth = g[1] /\ gridHeight = g[2]
    /\ playerId = 0
    /\ difficulty = "Impossible"
    /\ strategy = "hamiltonian"
    /\ useHamiltonian = TRUE
    /\ survivalMode = FALSE
    /\ pathCache = EmptyMap
    /\ lastCacheTime = 0
    /\ cachedAt = EmptyMap
    /\ hamiltonianCycle = generateHamiltonianCycle(gridWidth, gridHeight)
    /\ cycleIndex = 0
    /\ now = StartTime
    /\ gameState \in CycleSnapshots(gridWidth, gridHeight)
    /\ ret = NoRet
    /\ probe = NoProbe
    /\ out = <<>>
    /\ TournamentConstructed

\* The tiers that send a decision to getHamiltonianMove and plan with A*
\* only from there.
CycleDifficulties == {"Expert", "Impossible"}

NextCycle ==
    \/ \E d \in CycleDifficulties : SetDifficulty(d)
    \/ Reset
    \/ \E gs \in CycleSnapshots(gridWidth, gridHeight) : HostSnapshot(gs)
    \/ GetNextMove

SpecCycle == InitCycle /\ [][NextCycle]_vars

----------------------------------------------------------------------------
(* The 10x10 board of the worked example: a snake of three in the middle,  *)
(* the food three cells above its head, with and without a wall in between *)

ExampleGrids == {<<10, 10>>}

ExampleBody == <<<<5, 5>>, <<4, 5>>, <<3, 5>>>>

ExampleFood == <<5, 2>>

ExampleWall == {<<5, 3>>, <<5, 4>>}

ExampleBodies == {ExampleBody, <<<<0, 0>>, <<0, 1>>>>}

ExampleFoods == {ExampleFood}

\* A pocket of one cell above the head of the example body.
ExamplePocket == {<<5, 3>>, <<4, 4>>, <<6, 4>>}

ExampleObstacles ==
    {{}, ExampleWall, ExamplePocket, {<<5, 4>>, <<6, 5>>, <<5, 6>>}}

ExampleSnapshots(w, h) ==
    {MkGameState(w, h, food, obstacles, <<MkSnake(body)>>) :
        food \in ExampleFoods, obstacles \in ExampleObstacles,
        body \in ExampleBodies}

InitExample ==
    /\ \E g \in ExampleGrids : gridWidth = g[1] /\ gridHeight = g[2]
    /\ playerId = 0
    /\ difficulty = "Medium"
    /\ strategy = "astar"
    /\ useHamiltonian = FALSE
    /\ survivalMode = FALSE
    /\ pathCache = EmptyMap
    /\ lastCacheTime = 0
    /\ cachedAt = EmptyMap
    /\ hamiltonianCycle = generateHamiltonianCycle(gridWidth, gridHeight)
    /\ cycleIndex = 0
    /\ now = StartTime
    /\ gameState \in ExampleSnapshots(gridWidth, gridHeight)
    /\ ret = NoRet
    /\ probe = NoProbe
    /\ out = <<>>
    /\ TournamentConstructed

NextExample ==
    \/ \E d \in Difficulties : SetDifficulty(d)
    \/ Reset
    \/ \E gs \in ExampleSnapshots(gridWidth, gridHeight) : HostSnapshot(gs)
    \/ GetNextMove

SpecExample == InitExample /\ [][NextExample]_vars

----------------------------------------------------------------------------
(* Boards of more than three hundred cells: 20x20, within the size limit   *)
(* of the cycle generator, and the strips 2x167 and 9x37 of 334 and 333    *)
(* cells                                                                   *)

WideGrids == {<<20, 20>>, <<2, 167>>, <<9, 37>>}

WideBodies == {<<<<1, 1>>, <<1, 0>>>>, <<<<0, 0>>>>}

WideFoods == {<<1, 3>>}

WideObstacles == {{}, {<<1, 2>>}}

\* Snapshots with the agent's snake, and one without any snake.
WideSnapshots(w, h) ==
    {MkGameState(w, h, food, obstacles, <<MkSnake(body)>>) :
        food \in WideFoods, obstacles \in WideObstacles,
        body \in WideBodies}
    \cup {MkGameState(w, h, food, {}, <<>>) : food \in WideFoods}

InitWide ==
    /\ \E g \in WideGrids : gridWidth = g[1] /\ gridHeight = g[2]
    /\ playerId = 0
    /\ difficulty = "Medium"
    /\ strategy = "astar"
    /\ useHamiltonian = FALSE
    /\ survivalMode = FALSE
    /\ pathCache = EmptyMap
    /\ lastCacheTime = 0
    /\ cachedAt = EmptyMap
    /\ hamiltonianCycle = generateHamiltonianCycle(gridWidth, gridHeight)
    /\ cycleIndex = 0
    /\ now = StartTime
    /\ gameState \in WideSnapshots(gridWidth, gridHeight)
    /\ ret = NoRet
    /\ probe = NoProbe
    /\ out = <<>>
    /\ TournamentConstructed

NextWide ==
    \/ \E d \in Difficulties : SetDifficulty(d)
    \/ Reset
    \/ \E gs \in WideSnapshots(gridWidth, gridHeight) : HostSnapshot(gs)
    \/ GetNextMove

SpecWide == InitWide /\ [][NextWide]_vars

----------------------------------------------------------------------------
(* TournamentManager: players, matches and round progression               *)

MaxPlayerObjects == 3
MaxMatches == 1
MaxScore == 1

\* Text is a sequence of one-character strings.
DigitChars == <<"0", "1", "2", "3", "4", "5", "6", "7", "8", "9">>

\* `${n}` for a number n >= 0: its decimal digits.
RECURSIVE Digits(_)
Digits(n) ==
    IF n < 10 THEN <<DigitChars[n + 1]>>
    ELSE Digits(n \div 10) \o <<DigitChars[(n % 10) + 1]>>

\* text.includes(part)
Includes(text, part) ==
    \E i \in 1..(Len(text) - Len(part) + 1) :
        SubSeq(text, i, i + Len(part) - 1) = part

\* text.split('_')[1]: the characters between the first underscore and the
\* next one (or the end of the text).
SplitSecondField(text) ==
    LET marks == {i \in 1..Len(text) : text[i] = "_"}
        first == CHOOSE i \in marks : \A j \in marks : i <= j
        later == {i \in marks : i > first}
        stop == IF later = {} THEN Len(text) + 1
                ELSE CHOOSE i \in later : \A j \in later : i <= j
    IN SubSeq(text, first + 1, stop - 1)

\* parseInt of a text of decimal digits.
RECURSIVE ParseInt(_)
ParseInt(text) ==
    IF Len(text) = 0 THEN 0
    ELSE LET last == text[Len(text)]
             digit == CHOOSE d \in 0..9 : DigitChars[d + 1] = last
         IN 10 * ParseInt(SubSeq(text, 1, Len(text) - 1)) + digit

\* Math.random().toString(36).substr(2, 9): up to nine characters out of
\* 0-9 and a-z.
RandomSuffixes == {<<"r", "o", "u", "n", "d", "1">>, <<"k", "7", "x">>}

\* `match_${Date.now()}_${suffix}`
MatchId(time, suffix) ==
    <<"m", "a", "t", "c", "h", "_">> \o Digits(time) \o <<"_">> \o suffix

\* `round_${round}`
RoundTag(round) == <<"r", "o", "u", "n", "d", "_">> \o Digits(round)

\* The players map, in insertion order: entries [id, player], player being
\* the index of the Player object in playerHeap.
MapHas(entries, id) == \E i \in 1..Len(entries) : entries[i].id = id

MapGet(entries, id) ==
    entries[CHOOSE i \in 1..Len(entries) : entries[i].id = id].player

\* Map.set: a present key keeps its place and gets the new value.
MapSet(entries, id, player) ==
    IF MapHas(entries, id)
    THEN [i \in 1..Len(entries) |->
             IF entries[i].id = id THEN [id |-> id, player |-> player]
             ELSE entries[i]]
    ELSE Append(entries, [id |-> id, player |-> player])

MapDelete(entries, id) == SelectSeq(entries, LAMBDA e : e.id # id)

\* Array.from(map.values())
MapValues(entries) == [i \in 1..Len(entries) |-> entries[i].player]

\* array.sort(compare), compare given as a function of two objects: the
\* sort is stable, so an element goes after those that compare before it
\* and after its equals that stood before it.
SortRefs(refs, compare) ==
    LET n == Len(refs)
        Rank(i) == Cardinality({j \in 1..n :
                       \/ compare[refs[j], refs[i]] < 0
                       \/ compare[refs[j], refs[i]] = 0 /\ j < i})
    IN [k \in 1..n |-> refs[CHOOSE i \in 1..n : Rank(i) = k - 1]]

NoAI == [playerId |-> -1, difficulty |-> "none", strategy |-> "none",
         useHamiltonian |-> FALSE]

TournamentModes == {"classic", "tournament", "survival"}
TournamentNames == {"Ann"}
TournamentDifficulties == {"Impossible"}
PlayerKinds == {TRUE}
PlayerIds == 0..(MaxPlayerObjects - 1)

\* Arguments of startMatch: no, one or two player ids.
MatchLineups ==
    {<<>>} \cup {<<a>> : a \in PlayerIds}
           \cup {<<pair[1], pair[2]>> :
                    pair \in {q \in PlayerIds \X PlayerIds : q[1] < q[2]}}

\* No stand-alone agent takes part here: the agent's variables rest at the
\* values of a fresh agent on the manager's grid.
InitTournament ==
    /\ gridWidth = 3 /\ gridHeight = 3
    /\ playerId = 0
    /\ difficulty = "Medium"
    /\ strategy = "astar"
    /\ useHamiltonian = FALSE
    /\ survivalMode = FALSE
    /\ pathCache = EmptyMap
    /\ lastCacheTime = 0
    /\ cachedAt = EmptyMap
    /\ hamiltonianCycle = generateHamiltonianCycle(gridWidth, gridHeight)
    /\ cycleIndex = 0
    /\ now = StartTime
    /\ gameState = MkGameState(gridWidth, gridHeight, <<0, 0>>, {}, <<>>)
    /\ ret = NoRet
    /\ probe = NoProbe
    /\ out = <<>>
    /\ TournamentConstructed

SetGameMode(mode) ==
    /\ gameMode' = mode
    /\ maxPlayers' = CASE mode = "battle" -> 4
                       [] mode = "tournament" -> 8
                       [] mode = "survival" -> 2
                       [] mode = "training" -> 2
                       [] OTHER -> 1
    /\ roundRobin' = (mode = "tournament")
    /\ maxRounds' = IF mode = "tournament" THEN 3 ELSE maxRounds
    /\ UNCHANGED <<players, playerHeap, matches, currentMatch, currentRound,
                   eliminated, stats>>
    /\ UNCHANGED <<agentVars, now, gameState, ret, probe, out>>

\* addPlayer: the id is the size of the map; an AI player gets a SnakeAI of
\* that id with the difficulty set.
AddPlayer(name, isAI, d) ==
    /\ Len(playerHeap) < MaxPlayerObjects
    /\ \E flag \in (IF d \in {"Hard", "Expert"} THEN BOOLEAN
                    ELSE {d = "Impossible"}) :
          LET id == Len(players)
              player == [id |-> id, name |-> name, isAI |-> isAI,
                         ai |-> IF isAI
                                THEN [playerId |-> id, difficulty |-> d,
                                      strategy |-> StrategyOf(d),
                                      useHamiltonian |-> flag]
                                ELSE NoAI,
                         color |-> id % 8,
                         score |-> 0, wins |-> 0, losses |-> 0, draws |-> 0]
          IN /\ playerHeap' = Append(playerHeap, player)
             /\ players' = MapSet(players, id, Len(playerHeap) + 1)
    /\ UNCHANGED <<matches, currentMatch, gameMode, roundRobin, maxPlayers,
                   currentRound, maxRounds, eliminated, stats>>
    /\ UNCHANGED <<agentVars, now, gameState, ret, probe, out>>

RemovePlayer(id) ==
    /\ players' = MapDelete(players, id)
    /\ UNCHANGED <<playerHeap, matches, currentMatch, gameMode, roundRobin,
                   maxPlayers, currentRound, maxRounds, eliminated, stats>>
    /\ UNCHANGED <<agentVars, now, gameState, ret, probe, out>>

\* startMatch: null (nothing changes) for a lineup of the wrong size or with
\* an id that is not registered; otherwise the match is pushed and becomes
\* the current one.
StartMatch(playerIds, suffix) ==
    /\ Len(matches) < MaxMatches
    /\ IF \/ Len(playerIds) < 1 \/ Len(playerIds) > maxPlayers
          \/ \E i \in 1..Len(playerIds) : ~MapHas(players, playerIds[i])
       THEN UNCHANGED <<matches, currentMatch, stats>>
       ELSE LET matchPlayers == [i \in 1..Len(playerIds) |->
                                    MapGet(players, playerIds[i])]
                match == [id |-> MatchId(now, suffix),
                          players |-> matchPlayers,
                          winner |-> 0,
                          duration |-> 0,
                          finalScores |-> [i \in 1..Len(playerIds) |-> 0],
                          completed |-> FALSE]
            IN /\ matches' = Append(matches, match)
               /\ currentMatch' = Len(matches) + 1
               /\ stats' = [stats EXCEPT !.totalMatches = @ + 1]
    /\ UNCHANGED <<players, playerHeap, gameMode, roundRobin, maxPlayers,
                   currentRound, maxRounds, eliminated>>
    /\ UNCHANGED <<agentVars, now, gameState, ret, probe, out>>

\* The forEach of completeMatch over the match's players, from index on.
RECURSIVE CreditPlayers(_, _, _, _, _)
CreditPlayers(heap, refs, finalScores, winner, index) ==
    IF index > Len(refs) THEN heap
    ELSE LET ref == refs[index]
             scored == [heap EXCEPT ![ref].score = @ + finalScores[index]]
             credited ==
                IF ref = winner THEN [scored EXCEPT ![ref].wins = @ + 1]
                ELSE IF winner # 0 THEN [scored EXCEPT ![ref].losses = @ + 1]
                ELSE [scored EXCEPT ![ref].draws = @ + 1]
         IN CreditPlayers(credited, refs, finalScores, winner, index + 1)

RECURSIVE TotalDuration(_, _)
TotalDuration(ms, n) ==
    IF n = 0 THEN 0
    ELSE TotalDuration(ms, n - 1)
            + (IF ms[n].completed THEN ms[n].duration ELSE 0)

\* updateLeaderboard: the registered players by wins, then by score, and
\* the mean duration of the completed matches.
updateLeaderboard(st, entries, heap, ms) ==
    LET compare == [a \in DOMAIN heap, b \in DOMAIN heap |->
                       IF heap[b].wins # heap[a].wins
                       THEN heap[b].wins - heap[a].wins
                       ELSE heap[b].score - heap[a].score]
    IN [st EXCEPT
          !.leaderboard = SortRefs(MapValues(entries), compare),
          !.avgMatchDuration =
              IF st.completedMatches > 0
              THEN [sum |-> TotalDuration(ms, Len(ms)),
                    of |-> st.completedMatches]
              ELSE @]

CeilDiv(a, b) == (a + b - 1) \div b

\* checkTournamentProgression: [eliminated, currentRound] afterwards.
\* roundMatches.length >= Math.ceil(size / 2^(round - 1)) / 2 is compared
\* after doubling both sides.
checkTournamentProgression(entries, heap, ms) ==
    LET roundMatches == {i \in 1..Len(ms) :
                            /\ Includes(ms[i].id, RoundTag(currentRound))
                            /\ ms[i].completed}
        twiceExpected == CeilDiv(Len(entries), 2 ^ (currentRound - 1))
        compare == [a \in DOMAIN heap, b \in DOMAIN heap |->
                       heap[b].score - heap[a].score]
        sortedPlayers ==
            SortRefs(SelectSeq(MapValues(entries),
                               LAMBDA p : heap[p].id \notin eliminated),
                     compare)
        toEliminate == Len(sortedPlayers) \div 2
    IN IF 2 * Cardinality(roundMatches) >= twiceExpected
       THEN [eliminated |->
                eliminated \cup
                   {heap[sortedPlayers[i]].id :
                       i \in (Len(sortedPlayers) - toEliminate + 1)
                                ..Len(sortedPlayers)},
             currentRound |-> currentRound + 1]
       ELSE [eliminated |-> eliminated, currentRound |-> currentRound]

\* Arguments of completeMatch for the match being played: a score for each
\* of its players, and one of them, or nobody, as the winner.
ScoreLists ==
    IF currentMatch = 0 THEN {<<>>}
    ELSE [1..Len(matches[currentMatch].players) -> 0..MaxScore]

Winners ==
    IF currentMatch = 0 THEN {0}
    ELSE {0} \cup {matches[currentMatch].players[i] :
                      i \in 1..Len(matches[currentMatch].players)}

\* completeMatch: nothing without a current match; otherwise the match is
\* closed, its players are credited, the statistics and the leaderboard are
\* refreshed and, in tournament mode, the round is checked.
CompleteMatch(finalScores, winner) ==
    /\ IF currentMatch = 0
       THEN UNCHANGED <<playerHeap, matches, currentMatch, currentRound,
                        eliminated, stats>>
       ELSE LET match == matches[currentMatch]
                closed == [match EXCEPT
                             !.finalScores = finalScores,
                             !.winner = winner,
                             !.completed = TRUE,
                             !.duration =
                                 now - ParseInt(SplitSecondField(match.id))]
                ms == [matches EXCEPT ![currentMatch] = closed]
                heap == CreditPlayers(playerHeap, match.players, finalScores,
                                      winner, 1)
                counted == [stats EXCEPT !.completedMatches = @ + 1]
                progress == IF gameMode = "tournament"
                            THEN checkTournamentProgression(players, heap, ms)
                            ELSE [eliminated |-> eliminated,
                                  currentRound |-> currentRound]
            IN /\ matches' = ms
               /\ playerHeap' = heap
               /\ stats' = updateLeaderboard(counted, players, heap, ms)
               /\ eliminated' = progress.eliminated
               /\ currentRound' = progress.currentRound
               /\ currentMatch' = 0
    /\ UNCHANGED <<players, gameMode, roundRobin, maxPlayers, maxRounds>>
    /\ UNCHANGED <<agentVars, now, gameState, ret, probe, out>>

\* reset of the manager.  Nothing the manager holds refers to a Player
\* object afterwards, so the objects are dropped with it.
TournamentReset ==
    /\ players' = <<>>
    /\ playerHeap' = <<>>
    /\ matches' = <<>>
    /\ currentMatch' = 0
    /\ currentRound' = 1
    /\ eliminated' = {}
    /\ stats' = [totalMatches |-> 0, completedMatches |-> 0,
                 avgMatchDuration |-> [sum |-> 0, of |-> 1],
                 leaderboard |-> <<>>]
    /\ UNCHANGED <<gameMode, roundRobin, maxPlayers, maxRounds>>
    /\ UNCHANGED <<agentVars, now, gameState, ret, probe, out>>

NextTournament ==
    \/ \E mode \in TournamentModes : SetGameMode(mode)
    \/ \E name \in TournamentNames, isAI \in PlayerKinds,
          d \in TournamentDifficulties : AddPlayer(name, isAI, d)
    \/ \E id \in PlayerIds : RemovePlayer(id)
    \/ \E playerIds \in MatchLineups, suffix \in RandomSuffixes :
          StartMatch(playerIds, suffix)
    \/ \E finalScores \in ScoreLists, winner \in Winners :
          CompleteMatch(finalScores, winner)
    \/ TournamentReset
    \/ Tick

SpecTournament == InitTournament /\ [][NextTournament]_vars

\* A tournament that is played on: the mode is set to tournament, players
\* join, nobody leaves and the manager is not reset; a match that can be
\* started is started and the match being played is completed.
NextPlay ==
    \/ \E mode \in {"tournament"} : SetGameMode(mode)
    \/ \E name \in TournamentNames, isAI \in PlayerKinds,
          d \in TournamentDifficulties : AddPlayer(name, isAI, d)
    \/ \E playerIds \in MatchLineups, suffix \in RandomSuffixes :
          StartMatch(playerIds, suffix)
    \/ \E finalScores \in ScoreLists, winner \in Winners :
          CompleteMatch(finalScores, winner)
    \/ Tick

SpecPlay ==
    /\ InitTournament
    /\ [][NextPlay]_vars
    /\ WF_vars(\E playerIds \in MatchLineups, suffix \in RandomSuffixes :
                  StartMatch(playerIds, suffix))
    /\ WF_vars(\E finalScores \in ScoreLists, winner \in Winners :
                  CompleteMatch(finalScores, winner))

----------------------------------------------------------------------------
(* Vocabulary of the properties, stated on the snapshot alone              *)

UnitDirections == {<<1, 0>>, <<-1, 0>>, <<0, 1>>, <<0, -1>>}

Me == playerId + 1

SelfPresent == Me \in DOMAIN gameState.snakes

\* Cells held by a body segment that blocks the snake at index me: every
\* segment of every other snake, and every segment of its own body but the
\* last element.
BlockingSegments(me, gs) ==
    {gs.snakes[me].body[i] : i \in 1..(Len(gs.snakes[me].body) - 1)}
    \cup UNION {BodyCells(gs.snakes[s].body) : s \in (DOMAIN gs.snakes) \ {me}}

OccupancySafe(cell, me, gs) ==
    /\ cell \in Cells(gs.gridWidth, gs.gridHeight)
    /\ cell \notin gs.obstacles
    /\ cell \notin BlockingSegments(me, gs)

Decided == ret.kind = "move" /\ SelfPresent

----------------------------------------------------------------------------
(* C1: every getNextMove call returns one of the four unit direction       *)
(* vectors (1,0), (-1,0), (0,1), (0,-1): never the zero vector, a diagonal *)
(* or a component of magnitude above 1.                                    *)
C1_UnitDirection == ret.kind = "move" => ret.dir \in UnitDirections

(* C2: when at least one neighbour of the head is occupancy-safe, the      *)
(* direction returned by getNextMove leads to an occupancy-safe cell.      *)
C2_SafeWhenPossible ==
    (/\ Decided
     /\ \E d \in UnitDirections :
           OccupancySafe(Add(gameState.snakes[Me].head, d), Me, gameState))
    => OccupancySafe(Add(gameState.snakes[Me].head, ret.dir), Me, gameState)

(* C3: every getNextMove call terminates (the flood fill and the A* search *)
(* with its backward path reconstruction finish).                          *)
C3_Terminates == ret.kind # "hang"

(* C7: for an agent built with gridWidth <= 20 and gridHeight <= 20 the    *)
(* cycle holds exactly gridWidth * gridHeight positions, every cell of the *)
(* grid exactly once, and setDifficulty, getNextMove and reset never       *)
(* change it.                                                              *)
CycleCoversGrid ==
    (gridWidth <= CycleMaxDim /\ gridHeight <= CycleMaxDim) =>
        /\ Len(hamiltonianCycle) = gridWidth * gridHeight
        /\ \A c \in Cells(gridWidth, gridHeight) :
              Cardinality({i \in 1..Len(hamiltonianCycle) :
                              hamiltonianCycle[i] = c}) = 1

C7_CyclePermutation ==
    /\ []CycleCoversGrid
    /\ [][hamiltonianCycle' = hamiltonianCycle]_vars

\* A state after setDifficulty, a getNextMove that cached a path, and reset.
C7_Witness ==
    /\ difficulty # "Medium"
    /\ ret.kind = "move"
    /\ lastCacheTime # 0 /\ pathCache = EmptyMap
    /\ Len(hamiltonianCycle) = gridWidth * gridHeight

(* C8: on a grid within the size threshold with an even row count, every   *)
(* two consecutive cycle positions, the pair (last, first) included, are   *)
(* 4-adjacent.                                                             *)
C8_ClosedLoop ==
    (/\ gridWidth <= CycleMaxDim /\ gridHeight <= CycleMaxDim
     /\ gridHeight % 2 = 0)
    => \A i \in 1..Len(hamiltonianCycle) :
          Adjacent(hamiltonianCycle[i],
                   hamiltonianCycle[(i % Len(hamiltonianCycle)) + 1])

(* C9: an agent following the cycle from a head position on the cycle     *)
(* (closed cycle, no other snakes, no obstacles) never moves its head onto *)
(* one of its own non-tail body segments.                                  *)
C9_NoSelfCollision ==
    Decided =>
        LET body == gameState.snakes[Me].body IN
        \A i \in 1..(Len(body) - 1) :
            body[i] # Add(gameState.snakes[Me].head, ret.dir)

(* C10: whenever survivalMode is computed true for a decision, the         *)
(* returned direction is the one the survival strategy selects.            *)
C10_SurvivalOverrides ==
    (Decided /\ survivalMode) => ret.dir = getSurvivalMove(Me, gameState)

----------------------------------------------------------------------------
(* Properties of the direct calls *)

Min(a, b) == IF a < b THEN a ELSE b

\* The cells 4-adjacent to a cell of S.
Around(S) == UNION {{Add(q, d) : d \in UnitDirections} : q \in S}

\* The cells reachable from S by steps between 4-adjacent cells, every cell
\* entered being occupancy-safe.
RECURSIVE Grow(_, _, _)
Grow(S, me, gs) ==
    LET new == {c \in Around(S) \ S : OccupancySafe(c, me, gs)}
    IN IF new = {} THEN S ELSE Grow(S \cup new, me, gs)

Region(start, me, gs) == Grow({start}, me, gs)

\* Number of steps of a shortest such walk from the cells of S to goal;
\* Infinity when there is none.
RECURSIVE StepsTo(_, _, _, _)
StepsTo(S, goal, me, gs) ==
    IF goal \in S THEN 0
    ELSE LET new == {c \in Around(S) \ S : OccupancySafe(c, me, gs)}
         IN IF new = {} THEN Infinity
            ELSE 1 + StepsTo(S \cup new, goal, me, gs)

SelfBody == gameState.snakes[Me].body

(* C4: the occupancy test reports a cell blocked exactly when it is        *)
(* outside the grid, an obstacle, or a body segment of any snake other     *)
(* than the self snake's last body element; the self tail cell is free,    *)
(* every other self body cell is occupied, tails of other snakes are       *)
(* occupied.                                                               *)
C4_Occupancy ==
    probe.fn = "isPositionOccupied" =>
        /\ out <=> ~OccupancySafe(probe.pos, Me, gameState)
        /\ probe.pos = SelfBody[Len(SelfBody)] => ~out
        /\ (\E i \in 1..(Len(SelfBody) - 1) : SelfBody[i] = probe.pos) => out
        /\ (\E s \in (DOMAIN gameState.snakes) \ {Me} :
               LET other == gameState.snakes[s].body IN
               other[Len(other)] = probe.pos) => out

C4_Witness ==
    /\ probe.fn = "isPositionOccupied"
    /\ Len(SelfBody) > 1
    /\ probe.pos = SelfBody[Len(SelfBody)]
    /\ Len(gameState.snakes) > 1
    /\ ~out

(* C5: countAvailableSpace returns min(100, k), k the number of cells of   *)
(* the 4-connected region of in-bounds unoccupied cells reachable from     *)
(* start, start counted once.                                              *)
C5_FloodCount ==
    probe.fn = "countAvailableSpace" =>
        out = Min(FloodCap, Cardinality(Region(probe.pos, Me, gameState)))

C5_Witness ==
    /\ probe.fn = "countAvailableSpace"
    /\ out = FloodCap
    /\ Cardinality(Region(probe.pos, Me, gameState)) > FloodCap

(* C6: findPathAStar returns the empty sequence exactly when the goal is   *)
(* not reachable, and otherwise a walk from start to goal between          *)
(* 4-adjacent cells, through in-bounds unoccupied cells after the start,   *)
(* with the least possible number of steps (the Manhattan distance when    *)
(* nothing is in the way).                                                 *)
C6_ShortestPath ==
    probe.fn = "findPathAStar" =>
        LET start == gameState.snakes[Me].head
            goal == probe.pos
            path == out.path
        IN /\ ~out.diverges
           /\ path = <<>> <=> goal \notin Region(start, Me, gameState)
           /\ path # <<>> =>
                /\ path[1] = start /\ path[Len(path)] = goal
                /\ \A i \in 2..Len(path) :
                      /\ Adjacent(path[i - 1], path[i])
                      /\ OccupancySafe(path[i], Me, gameState)
                /\ Len(path) - 1 = StepsTo({start}, goal, Me, gameState)
                /\ (gameState.obstacles = {}
                    /\ BlockingSegments(Me, gameState) \subseteq {start})
                   => Len(path) - 1 = Heuristic(start, goal)

----------------------------------------------------------------------------
(* Properties of the configuration, the survival flag and the path cache   *)

\* A getNextMove call returns in this step.
Called == ret = NoRet /\ ret'.kind = "move"

\* The capped number of cells reachable from the head.
HeadSpace == Min(FloodCap, Cardinality(Region(gameState.snakes[Me].head, Me, gameState)))

GridCells == gameState.gridWidth * gameState.gridHeight

\* HeadSpace / GridCells < 0.3
LowSpace == 10 * HeadSpace < 3 * GridCells

\* length > 0.5 * GridCells
LongSnake == 2 * gameState.snakes[Me].length > GridCells

(* C11: after every getNextMove call with the agent's own snake present,   *)
(* survivalMode is true exactly when the flood-fill count from the head    *)
(* divided by gridWidth * gridHeight is below 0.3 or the snake's length    *)
(* exceeds 0.5 * gridWidth * gridHeight.                                   *)
C11_SurvivalFlag ==
    [][(Called /\ SelfPresent) => (survivalMode' <=> (LowSpace \/ LongSnake))]_vars

\* A call that set the flag on the length alone.
C11_Witness == Decided /\ survivalMode /\ LongSnake /\ ~LowSpace

(* C12: after any sequence of setDifficulty calls useHamiltonian agrees    *)
(* with the most recently assigned tier: false when it is Easy or Medium,  *)
(* true when it is Impossible, whatever was assigned earlier.              *)
C12_FlagMatchesTier ==
    /\ difficulty \in {"Easy", "Medium"} => ~useHamiltonian
    /\ difficulty = "Impossible" => useHamiltonian

(* C13: a freshly constructed agent has difficulty Medium, strategy astar  *)
(* and useHamiltonian false; after any sequence of setDifficulty,          *)
(* getNextMove and reset calls the strategy is that of the tier assigned   *)
(* last: Easy simple, Medium astar, Hard astar, Expert survival,           *)
(* Impossible hamiltonian.                                                 *)
TierStrategy ==
    \/ difficulty = "Easy" /\ strategy = "simple"
    \/ difficulty = "Medium" /\ strategy = "astar"
    \/ difficulty = "Hard" /\ strategy = "astar"
    \/ difficulty = "Expert" /\ strategy = "survival"
    \/ difficulty = "Impossible" /\ strategy = "hamiltonian"

C13_StrategyOfTier ==
    /\ difficulty = "Medium" /\ strategy = "astar" /\ ~useHamiltonian
    /\ []TierStrategy

\* Expert assigned after a decision that cached a path and a reset.
C13_Witness ==
    /\ difficulty = "Expert" /\ strategy = "survival"
    /\ ret.kind = "move" /\ ret.via = "survival"
    /\ lastCacheTime # 0 /\ pathCache = EmptyMap

\* The cache key of the current snapshot.
SnapshotKey == CacheKey(gameState.snakes[Me].head, gameState.food)

(* C14: a cached path for key (head, food) is reused only if fewer than    *)
(* 500 ms have elapsed since that path itself was cached, even when a path *)
(* for another key was cached more recently.                               *)
C14_EntryFresh ==
    [][(Called /\ ret'.via = "cache")
          => now - cachedAt[SnapshotKey] < CacheValidTime]_vars

\* The direction of a path planned on the current snapshot, or the safe
\* move when there is none.
FreshAStarDir ==
    LET head == gameState.snakes[Me].head
        found == findPathAStar(head, gameState.food, Me, gameState)
    IN IF Len(found.path) > 1 THEN Sub(found.path[2], head)
       ELSE getSafeMove(Me, gameState)

(* C15: reset empties the path cache, and a getNextMove that reaches the   *)
(* A* strategy for a (head, food) pair for which no path has been stored   *)
(* since the last reset plans the path anew on the snapshot it is given,   *)
(* at any elapsed time, instead of serving a path cached before the reset. *)
C15_ResetClearsCache ==
    /\ [][Reset => pathCache' = EmptyMap]_vars
    /\ [][(/\ Called
           /\ ret'.via \in {"cache", "astar", "safe"}
           /\ SnapshotKey \notin DOMAIN cachedAt)
          => (ret'.via # "cache" /\ ret'.dir = FreshAStarDir)]_vars

\* A path was stored for the current pair at this very instant, and the
\* agent has been reset since.
C15_Witness ==
    /\ ret.kind = "move" /\ ret.via = "astar"
    /\ lastCacheTime = now
    /\ pathCache = EmptyMap

(* C16: reset leaves the Hamiltonian cycle, the difficulty tier, the       *)
(* strategy, the useHamiltonian flag and the grid dimensions unchanged; it *)
(* empties the path cache and makes survivalMode false.                    *)
C16_ResetFrame ==
    [][Reset => /\ UNCHANGED <<hamiltonianCycle, difficulty, strategy,
                               useHamiltonian, gridWidth, gridHeight>>
                /\ pathCache' = EmptyMap
                /\ ~survivalMode']_vars

\* A Hard agent with the flag drawn true decided in survival mode with a
\* stored path, and has been reset since.
C16_Witness ==
    /\ Decided /\ (LowSpace \/ LongSnake) /\ ~survivalMode
    /\ lastCacheTime # 0 /\ pathCache = EmptyMap
    /\ difficulty = "Hard" /\ useHamiltonian

\* No neighbour of the head is occupancy-safe.
AllBlocked ==
    \A d \in UnitDirections :
        ~OccupancySafe(Add(gameState.snakes[Me].head, d), Me, gameState)

(* C17: when all four neighbours of the head are blocked, getNextMove      *)
(* returns, and returns the default direction right (1,0), under every     *)
(* difficulty tier and configuration.                                      *)
C17_DefaultWhenBlocked ==
    (SelfPresent /\ ret.kind # "none" /\ AllBlocked)
    => (ret.kind = "move" /\ ret.dir = <<1, 0>>)

\* The planner has nothing to return: the food is out of reach of the head,
\* or under it.
NoPathToFood ==
    LET head == gameState.snakes[Me].head IN
    \/ gameState.food = head
    \/ gameState.food \notin Region(head, Me, gameState)

\* The first of right, left, down, up that leads to an occupancy-safe cell.
FirstSafeDirection ==
    LET head == gameState.snakes[Me].head
        Safe(d) == OccupancySafe(Add(head, d), Me, gameState)
    IN IF Safe(<<1, 0>>) THEN <<1, 0>>
       ELSE IF Safe(<<-1, 0>>) THEN <<-1, 0>>
       ELSE IF Safe(<<0, 1>>) THEN <<0, 1>>
       ELSE <<0, -1>>

(* C18: when the A* strategy serves no cached path and finds no path from  *)
(* the head to the food (food unreachable, or head on the food), it        *)
(* returns the first occupancy-safe direction in the order right, left,    *)
(* down, up, and leaves the path cache unchanged.                          *)
C18_SafeFallback ==
    [][(Called /\ ret'.via \in {"astar", "safe"} /\ NoPathToFood)
          => /\ pathCache' = pathCache
             /\ AllBlocked \/ ret'.dir = FirstSafeDirection]_vars

\* The fallback was taken for an unreachable food with a safe neighbour at
\* hand and paths in the cache.
C18_Witness ==
    /\ Decided /\ ret.via = "safe"
    /\ gameState.food # gameState.snakes[Me].head
    /\ NoPathToFood /\ ~AllBlocked
    /\ pathCache # EmptyMap

\* getNextMove hands the decision of this step to getHamiltonianMove.
HamiltonianReached ==
    (useHamiltonian /\ ~survivalMode') \/ strategy = "hamiltonian"

HeadOnCycle ==
    \E i \in 1..Len(hamiltonianCycle) :
        hamiltonianCycle[i] = gameState.snakes[Me].head

\* The step from the head to the cycle position after it, wrapping from
\* the last position to the first.
CycleStep ==
    LET n == Len(hamiltonianCycle)
        head == gameState.snakes[Me].head
        i == CHOOSE k \in 1..n : hamiltonianCycle[k] = head
    IN Sub(hamiltonianCycle[IF i = n THEN 1 ELSE i + 1], head)

(* C19: getHamiltonianMove falls back instead of failing: an agent built   *)
(* with gridWidth > 20 or gridHeight > 20 has an empty cycle and returns   *)
(* the survival strategy's move for the snapshot; with a non-empty cycle   *)
(* and the head off the cycle it returns the A* strategy's move; with the  *)
(* head on the cycle it returns the step to the next cycle index, wrapping *)
(* to 0.                                                                   *)
C19_HamiltonianFallbacks ==
    /\ []((gridWidth > CycleMaxDim \/ gridHeight > CycleMaxDim)
             => hamiltonianCycle = <<>>)
    /\ [][(Called /\ SelfPresent /\ HamiltonianReached)
            => IF hamiltonianCycle = <<>>
               THEN ret'.dir = getSurvivalMove(Me, gameState)
               ELSE IF ~HeadOnCycle
               THEN /\ ret'.dir = getAStarMove(Me, gameState).dir
                    /\ pathCache' = getAStarMove(Me, gameState).pathCache
               ELSE ret'.dir = CycleStep]_vars

\* The cycle follower found the head off its cycle and planned with A*.
C19_Witness ==
    /\ Decided /\ strategy = "hamiltonian"
    /\ hamiltonianCycle # <<>> /\ ~HeadOnCycle
    /\ ret.via = "astar"

(* C20: when the snapshot holds no snake at the agent's player index,      *)
(* getNextMove returns the default direction (0,1) and changes no agent    *)
(* state: path cache, survivalMode, strategy and useHamiltonian are as     *)
(* before the call.                                                        *)
C20_AbsentSnake ==
    [][(ret = NoRet /\ ret' # NoRet /\ ~SelfPresent)
          => /\ ret'.kind = "move" /\ ret'.dir = <<0, 1>>
             /\ UNCHANGED <<pathCache, survivalMode, strategy,
                            useHamiltonian>>]_vars

\* The call found no snake while a stored path and a raised survival flag
\* were left from earlier decisions.
C20_Witness ==
    /\ ~SelfPresent /\ ret.kind = "move" /\ ret.via = "absent"
    /\ survivalMode /\ pathCache # EmptyMap

----------------------------------------------------------------------------
(* Properties of the strategies *)

\* The snapshots of the worked example.
ExampleOpen == MkGameState(10, 10, ExampleFood, {}, <<MkSnake(ExampleBody)>>)

ExampleWalled ==
    MkGameState(10, 10, ExampleFood, ExampleWall, <<MkSnake(ExampleBody)>>)

\* d leads from the head to the second cell of a shortest walk to the food
\* through occupancy-safe cells.
ShortestFirstStep(d) ==
    LET head == gameState.snakes[Me].head
        next == Add(head, d)
    IN /\ d \in UnitDirections
       /\ OccupancySafe(next, Me, gameState)
       /\ gameState.food \in Region(next, Me, gameState)
       /\ StepsTo({next}, gameState.food, Me, gameState) + 1
             = StepsTo({head}, gameState.food, Me, gameState)

C22_SnapshotReadOnly ==
    [][(ret = NoRet /\ ret' # NoRet) => gameState' = gameState]_vars

\* A survival decision on a snapshot with obstacles and a second snake.
C22_Witness ==
    /\ Decided /\ ret.via = "survival"
    /\ gameState.obstacles # {} /\ Len(gameState.snakes) > 1

(* C23: within the validity window a second A* decision for the same      *)
(* (head, food) pair returns the direction of the decision that cached the *)
(* path, without planning again, even when obstacles or other snakes have  *)
(* changed so that the cached next cell is now occupied: only elapsed time *)
(* invalidates an entry, never the contents of the snapshot.               *)
C23_StaleCacheServed ==
    [][(/\ Called
        /\ ret'.via \in {"cache", "astar", "safe"}
        /\ SnapshotKey \in DOMAIN cachedAt
        /\ now - cachedAt[SnapshotKey] < CacheValidTime)
          => /\ ret'.via = "cache"
             /\ ret'.dir = Sub(pathCache[SnapshotKey][2],
                               gameState.snakes[Me].head)
             /\ pathCache' = pathCache]_vars

\* A cached step was served although an obstacle now stands on its cell.
C23_Witness ==
    /\ Decided /\ ret.via = "cache"
    /\ Add(gameState.snakes[Me].head, ret.dir) \in gameState.obstacles
    /\ now - cachedAt[SnapshotKey] < CacheValidTime

\* Position of a unit direction in the order right, left, down, up.
OrderOf(d) ==
    CASE d = <<1, 0>> -> 1
      [] d = <<-1, 0>> -> 2
      [] d = <<0, 1>> -> 3
      [] d = <<0, -1>> -> 4

SafeDirection(d) == OccupancySafe(Add(gameState.snakes[Me].head, d), Me, gameState)

\* The capped number of cells reachable from the cell the direction leads to.
SpaceBehind(d) ==
    Min(FloodCap,
        Cardinality(Region(Add(gameState.snakes[Me].head, d), Me, gameState)))

(* C24: the survival strategy returns, among the occupancy-safe            *)
(* directions, one whose destination cell has the maximum flood-fill       *)
(* count, and among those of equal maximal count the earliest in the order *)
(* right, left, down, up.                                                  *)
C24_SurvivalChoice ==
    (Decided /\ ret.via = "survival" /\ ~AllBlocked)
    => /\ ret.dir \in UnitDirections
       /\ SafeDirection(ret.dir)
       /\ \A d \in UnitDirections :
             SafeDirection(d)
             => \/ SpaceBehind(d) < SpaceBehind(ret.dir)
                \/ /\ SpaceBehind(d) = SpaceBehind(ret.dir)
                   /\ OrderOf(ret.dir) <= OrderOf(d)

\* The choice was made against a safe direction with less space and
\* against a later one with as much.
C24_Witness ==
    /\ Decided /\ ret.via = "survival" /\ ret.dir \in UnitDirections
    /\ \E d \in UnitDirections :
          SafeDirection(d) /\ SpaceBehind(d) < SpaceBehind(ret.dir)
    /\ \E d \in UnitDirections :
          /\ SafeDirection(d) /\ d # ret.dir
          /\ SpaceBehind(d) = SpaceBehind(ret.dir)

\* The one greedy step toward the food: along x when |dx| > |dy|, along y
\* otherwise.
GreedyDirection ==
    LET head == gameState.snakes[Me].head
        dx == gameState.food[1] - head[1]
        dy == gameState.food[2] - head[2]
    IN IF Abs(dx) > Abs(dy) THEN <<Sign(dx), 0>> ELSE <<0, Sign(dy)>>

(* C25: the simple strategy tries exactly one greedy direction toward the  *)
(* food, sign(dx) along x when |dx| > |dy| and sign(dy) along y otherwise, *)
(* and returns it when it is occupancy-safe; when it is not, it returns    *)
(* the first occupancy-safe direction in the order right, left, down, up,  *)
(* which may lead away from the food, without trying the other axis first. *)
C25_SimpleChoice ==
    (Decided /\ ret.via = "simple")
    => IF SafeDirection(GreedyDirection) THEN ret.dir = GreedyDirection
       ELSE AllBlocked \/ ret.dir = FirstSafeDirection

\* The greedy step was blocked and the step returned leads away from the
\* food.
C25_Witness ==
    /\ Decided /\ ret.via = "simple"
    /\ ~SafeDirection(GreedyDirection) /\ ~AllBlocked
    /\ Heuristic(Add(gameState.snakes[Me].head, ret.dir), gameState.food)
          > Heuristic(gameState.snakes[Me].head, gameState.food)

(* C26: a call of getNextMove leaves difficulty, strategy and              *)
(* useHamiltonian as they were, whatever branch it takes and whether or    *)
(* not it returns; only setDifficulty assigns them.                        *)
C26_ConfigurationKept ==
    [][(ret = NoRet /\ ret' # NoRet)
         => UNCHANGED <<difficulty, strategy, useHamiltonian>>]_vars

\* A call that was answered outside the configured cycle following because
\* the survival flag was raised, with the configuration still in place.
C26_Witness ==
    /\ Decided /\ SelfPresent
    /\ useHamiltonian /\ survivalMode /\ strategy = "astar"
    /\ ret.via \in {"astar", "safe", "cache"}

\* The least number of cells for which a full flood-fill count of FloodCap
\* is still below three tenths of the board.
WideBoard ==
    gameState.gridWidth * gameState.gridHeight >= 334

(* C27: the flood-fill count never exceeds 100, so on every board of 334   *)
(* cells or more each getNextMove call made with the agent's snake present *)
(* leaves survivalMode true, however empty the board is; on such boards an *)
(* agent of tier Hard or Expert, whose strategy is not hamiltonian, never  *)
(* answers from the cycle-following branch even with useHamiltonian set.   *)
C27_WideBoardSurvival ==
    [][(Called /\ SelfPresent /\ WideBoard)
         => /\ survivalMode'
            /\ difficulty \in {"Hard", "Expert"} => ret'.via # "cycle"]_vars

\* A Hard agent with the cycle flag set and a cycle of 400 cells, on a 20x20
\* board without obstacles, answered outside the cycle in survival mode.
C27_Witness ==
    /\ Decided /\ WideBoard
    /\ gameState.gridWidth = 20 /\ gameState.obstacles = {}
    /\ difficulty = "Hard" /\ useHamiltonian /\ Len(hamiltonianCycle) = 400
    /\ survivalMode
    /\ ret.via \in {"astar", "cache", "safe"}

\* The shape of one cache entry: at least two cells, from the head of its
\* key, through a neighbour of that head, to the food of its key.
EntryShape(key, path) ==
    /\ Len(path) >= 2
    /\ path[1] = key[1]
    /\ Adjacent(path[1], path[2])
    /\ path[Len(path)] = key[2]

\* A step of reset, told by what it leaves behind.
ResetStep ==
    /\ pathCache' = EmptyMap /\ cycleIndex' = 0 /\ ~survivalMode'
    /\ UNCHANGED <<difficulty, strategy, useHamiltonian, gameState, ret, now>>

(* C28: every path-cache entry under the key (head, food) is a path of at  *)
(* least two cells whose first cell is that head, whose second cell is     *)
(* 4-adjacent to the head and whose last cell is that food; a key is added *)
(* only by a call whose search succeeded and keys are removed only by      *)
(* reset, never by expiry, so the key set only grows between resets.       *)
C28_CacheEntries ==
    /\ [](\A key \in DOMAIN pathCache : EntryShape(key, pathCache[key]))
    /\ [][~ResetStep
            => /\ DOMAIN pathCache \subseteq DOMAIN pathCache'
               /\ DOMAIN pathCache' # DOMAIN pathCache
                     => Called /\ ret'.via = "astar"]_vars

\* Two entries, one of them older than the validity window and still kept.
C28_Witness ==
    /\ Cardinality(DOMAIN pathCache) >= 2
    /\ \E key \in DOMAIN pathCache : now - cachedAt[key] >= CacheValidTime
    /\ \A key \in DOMAIN pathCache : EntryShape(key, pathCache[key])

----------------------------------------------------------------------------
(* Properties of the tournament manager                                    *)

RegisteredIds == {players[i].id : i \in 1..Len(players)}

(* C29: after any sequence of addPlayer and removePlayer calls every       *)
(* registered player has a distinct id: addPlayer returns a player whose   *)
(* id was not in use and never replaces an already registered player.      *)
C29_FreshPlayerId ==
    [][Len(playerHeap') > Len(playerHeap)
         => LET added == playerHeap'[Len(playerHeap')] IN
            /\ added.id \notin RegisteredIds
            /\ Len(players') = Len(players) + 1
            /\ \A i \in 1..Len(players) : players'[i] = players[i]]_vars

\* In tournament mode, with two players or more, the match being played is
\* the last one the current round needs.
RoundBeingCompleted ==
    /\ gameMode = "tournament"
    /\ Len(players) >= 2
    /\ currentMatch # 0
    /\ 2 * (stats.completedMatches + 1)
          >= CeilDiv(Len(players), 2 ^ (currentRound - 1))

(* C30: in tournament mode, once the matches of the current round have     *)
(* been completed through startMatch and completeMatch, completeMatch      *)
(* eliminates the lower-scoring half of the players still in and           *)
(* increments currentRound: a tournament whose matches keep being played   *)
(* eventually reaches a round above 1 with a non-empty eliminated set.     *)
C30_RoundAdvances ==
    /\ [][(RoundBeingCompleted /\ currentMatch' = 0)
            => /\ currentRound' = currentRound + 1
               /\ eliminated' # {}]_vars
    /\ RoundBeingCompleted ~> (currentRound > 1 /\ eliminated # {})

====
